---- MODULE Spec2Model ----
(***************************************************************************)
(* cedar: the build pipeline of src/structure/build.rs, the argument       *)
(* parser and the run command of src/cli.rs, and Project::build of         *)
(* src/structure/project.rs.                                               *)
(*                                                                         *)
(* Spec is one call of build(); SpecRun is Args::run around it; SpecCli,   *)
(* SpecProject and SpecSearch are one call each of Args::get,              *)
(* Project::build and recursive_file_search.                               *)
(*                                                                         *)
(* A project root is a small filesystem: the four required members, the    *)
(* manifest file, the trees under src/ and include/, and the files that    *)
(* exist under build/.  build(path) is a sequence of steps, one action     *)
(* each; the program counter pc says which line of build() runs next.      *)
(* Paths are sequences of components, strings that the code compares       *)
(* character by character are sequences of one-character strings.          *)
(***************************************************************************)
EXTENDS Integers, Sequences, FiniteSets, TLC

\* ------------------------------------------------------------------ bounds
\* longest cflags array of a manifest
MaxFlags == 2

\* deepest nesting of directories below a searched directory
MaxDepth == 2

\* most entries of one directory
MaxEntries == 2

\* most command line arguments after the program name
MaxArgs == 3

\* ------------------------------------------------------------ small helpers
Range(s) == {s[i] : i \in 1..Len(s)}

SeqsUpTo(S, n) == UNION {[1..k -> S] : k \in 0..n}

\* Result<T, E>: Ok(v) and Err(e)
Ok(v) == [ok |-> TRUE, val |-> v]

Err(e) == [ok |-> FALSE, err |-> e]

\* -------------------------------------------------------------------- paths
\* the project root handed to build()
Root == <<"proj">>

\* Path::join: a relative path is appended, an absolute one replaces
PathJoin(base, rel) ==
    IF Len(rel) > 0 /\ rel[1] = "/" THEN rel ELSE base \o rel

manifest_path == PathJoin(Root, <<"cedar.toml">>)

src_path == PathJoin(Root, <<"src">>)

include_path == PathJoin(Root, <<"include">>)

build_path == PathJoin(Root, <<"build">>)

\* an array that leaves build/ out
RequiredPathsWithoutBuild == <<manifest_path, src_path, include_path>>

\* the array the existence loop runs over, in its order
RequiredPaths == <<manifest_path, src_path, include_path, build_path>>

\* ---------------------------------------------------- toolchain identifiers
gcc == <<"g", "c", "c">>

GCC == <<"G", "C", "C">>

clang == <<"c", "l", "a", "n", "g">>

CLANG == <<"C", "L", "A", "N", "G">>

Clang == <<"C", "l", "a", "n", "g">>

msvc == <<"m", "s", "v", "c">>

\* the values of build.compiler the model feeds in
Compilers ==
    {gcc, GCC, <<"G", "c", "c">>, <<"g", "C", "C">>,
     clang, CLANG, Clang, <<"c", "L", "A", "N", "G">>, msvc}

\* the arms of the match on manifest.build.compiler
ResolveCompiler(compiler) ==
    IF compiler \in {GCC, gcc} THEN "gcc"
    ELSE IF compiler \in {CLANG, clang, Clang} THEN "todo"
    ELSE "reject"

\* ---------------------------------------------------------------- manifest
\* meta.name is the file name of the output binary: one path component
Names == {"demo", "app"}

\* process arguments are strings; a flag is a string of one component
Flags == {<<"-Wall">>, <<"-O2">>}

\* the ways a manifest text can be broken for the parser
Defects == {"syntax", "no_name", "no_compiler", "cflags_not_strings"}

\* the text of cedar.toml: its fields, and what is wrong with it if anything
ManifestTexts ==
    [defect : {"none"}, name : Names, compiler : Compilers,
     cflags : SeqsUpTo(Flags, MaxFlags)]
    \cup [defect : Defects, name : {"demo"}, compiler : {gcc}, cflags : {<<>>}]

\* what cedar.toml holds: a text, or bytes that read_to_string cannot return
ManifestFiles == [readable : BOOLEAN, text : ManifestTexts]

\* fs::read_to_string(&manifest_path)
ReadToString(file) ==
    IF file.readable THEN Ok(file.text) ELSE Err("IoError")

\* Manifest::parse: the required fields must be there and well typed
ManifestParse(text) ==
    IF text.defect = "none"
    THEN Ok([name |-> text.name, compiler |-> text.compiler, cflags |-> text.cflags])
    ELSE Err("ManifestError")

\* ---------------------------------------------------------- directory trees
File(n) == [kind |-> "file", name |-> n]

Dir(n, r, es) == [kind |-> "dir", name |-> n, readable |-> r, entries |-> es]

SrcTrees ==
    {Dir("src", TRUE, <<>>),
     Dir("src", TRUE, <<File("main.c")>>),
     Dir("src", TRUE, <<File("main.c"), File("util.c")>>),
     Dir("src", TRUE, <<Dir("a", TRUE, <<File("x.c"),
                                        Dir("b", TRUE, <<File("y.c")>>)>>),
                       File("main.c")>>),
     Dir("src", TRUE, <<File("main.c"), Dir("a", FALSE, <<>>)>>),
     Dir("src", FALSE, <<>>)}

IncludeTrees ==
    {Dir("include", TRUE, <<>>),
     Dir("include", TRUE, <<File("a.h")>>),
     Dir("include", TRUE, <<Dir("sub", TRUE, <<File("b.h")>>), File("a.h")>>),
     Dir("include", FALSE, <<>>)}

\* names a directory entry can have: two files and one subdirectory
FileNames == {"a.c", "b.c"}

SubdirName == "d"

\* the orders in which read_dir can list the entries of one directory
Listings ==
    {ns \in SeqsUpTo(FileNames \cup {SubdirName}, MaxEntries) :
        \A i, j \in 1..Len(ns) : i # j => ns[i] # ns[j]}

\* the directories called name that nest at most depth levels of directories
RECURSIVE Trees(_, _)
Trees(name, depth) ==
    LET NoSub == {Dir(name, r, [i \in 1..Len(ns) |-> File(ns[i])]) :
                      r \in BOOLEAN,
                      ns \in {l \in Listings : SubdirName \notin Range(l)}}
    IN  IF depth = 0 THEN NoSub
        ELSE NoSub \cup
             {Dir(name, r, [i \in 1..Len(ns) |->
                               IF ns[i] = SubdirName THEN sub ELSE File(ns[i])]) :
                  r \in BOOLEAN,
                  ns \in {l \in Listings : SubdirName \in Range(l)},
                  sub \in Trees(SubdirName, depth - 1)}

\* a search in which the files of a subdirectory replace those found so far
RECURSIVE recursive_file_search_overwrite(_, _)
recursive_file_search_overwrite(path, dir) ==
    IF ~dir.readable THEN Err("IoError")
    ELSE LET RECURSIVE walk(_, _)
             walk(i, result) ==
                 IF i > Len(dir.entries) THEN Ok(result)
                 ELSE LET file_path == PathJoin(path, <<dir.entries[i].name>>)
                      IN  IF dir.entries[i].kind = "dir"
                          THEN LET sub == recursive_file_search_overwrite(
                                              file_path, dir.entries[i])
                               IN  IF sub.ok THEN walk(i + 1, sub.val)
                                   ELSE sub
                          ELSE walk(i + 1, Append(result, file_path))
         IN  walk(1, <<>>)

\* recursive_file_search: depth first, in the order read_dir lists the
\* entries; an unreadable directory at any depth fails the whole search
RECURSIVE recursive_file_search(_, _)
recursive_file_search(path, dir) ==
    IF ~dir.readable THEN Err("IoError")
    ELSE LET RECURSIVE walk(_, _)
             walk(i, result) ==
                 IF i > Len(dir.entries) THEN Ok(result)
                 ELSE LET file_path == PathJoin(path, <<dir.entries[i].name>>)
                      IN  IF dir.entries[i].kind = "dir"
                          THEN LET sub == recursive_file_search(file_path, dir.entries[i])
                               IN  IF sub.ok THEN walk(i + 1, result \o sub.val)
                                   ELSE sub
                          ELSE walk(i + 1, Append(result, file_path))
         IN  walk(1, <<>>)

\* ------------------------------------------------------------------- state
VARIABLES
    fs,             \* the filesystem under the project root
    fs0,            \* the filesystem as it was when build() was called
    pc,             \* the stage build() has reached
    failed_at,      \* the stage build() was in when it failed or panicked
    result,         \* what build() returned: "None" until it returns
    manifest_str,   \* the text read from cedar.toml
    manifest,       \* the parsed manifest
    src_files,      \* files discovered under src/
    include_files,  \* files discovered under include/
    compiler_args,  \* the arguments assembled before the output pair
    output_str,     \* the output path handed to the compiler
    program,        \* the program name the match resolved to
    child,          \* the compiler process: its command line and its status
    oplog,          \* filesystem and process operations, in the order made
    tree,           \* recursive_file_search: the directory searched
    found,          \* recursive_file_search: what it returned
    argv,           \* env::args().skip(1)
    cwd,            \* what env::current_dir() returns
    cli,            \* what Args::get returned
    project_path,   \* the path given to Project::build
    disk,           \* the paths that exist when Project::build is called
    project,        \* what Project::build returned
    run_pc,         \* the statement Args::run has reached
    run_result,     \* what Args::run returned: "None" until it returns
    output_path,    \* Args::run: the path of the binary it will execute
    bin             \* the process of the produced binary

\* the state of build()
build_vars == <<fs, fs0, pc, failed_at, result, manifest_str, manifest, src_files,
                include_files, compiler_args, output_str, program, child, oplog>>

\* the state of a lone call of recursive_file_search
search_vars == <<tree, found>>

\* the state of a call of Args::get
cli_vars == <<argv, cwd, cli>>

\* the state of a call of Project::build
project_vars == <<project_path, disk, project>>

\* the state of Args::run around its call of build()
run_vars == <<run_pc, run_result, output_path, bin>>

\* what no step of build() touches
outside_build == <<search_vars, cli_vars, project_vars, run_vars>>

vars == <<build_vars, outside_build>>

None == [none |-> TRUE]

NoChild == [program |-> "none", args |-> <<>>, status |-> "none"]

NoBin == [program |-> <<>>, status |-> "none"]

Op(kind, path) == [op |-> kind, path |-> path]

\* the four members a project root may or may not have
Members == {manifest_path, src_path, include_path, build_path}

\* the filesystems a build can be started on
Filesystems ==
    {f \in [members : SUBSET Members,
            manifest : ManifestFiles,
            src : SrcTrees,
            include : IncludeTrees,
            files : SUBSET {[path |-> build_path \o <<n>>, tag |-> "old"]
                            : n \in Names}] :
        f.files # {} => build_path \in f.members}

\* the locals of build() before its first statement, on any filesystem
BuildFresh(start) ==
    /\ fs \in Filesystems
    /\ fs0 = fs
    /\ pc = start
    /\ failed_at = "None"
    /\ result = "None"
    /\ manifest_str = None
    /\ manifest = None
    /\ src_files = <<>>
    /\ include_files = <<>>
    /\ compiler_args = <<>>
    /\ output_str = <<>>
    /\ program = "none"
    /\ child = NoChild
    /\ oplog = <<>>

\* build() has just been called
BuildInit == BuildFresh("Start")

\* build() is not called
NoBuild ==
    /\ fs = [members |-> {}, manifest |-> None, src |-> None, include |-> None,
             files |-> {}]
    /\ fs0 = fs
    /\ pc = "NotCalled"
    /\ failed_at = "None"
    /\ result = "None"
    /\ manifest_str = None
    /\ manifest = None
    /\ src_files = <<>>
    /\ include_files = <<>>
    /\ compiler_args = <<>>
    /\ output_str = <<>>
    /\ program = "none"
    /\ child = NoChild
    /\ oplog = <<>>

\* recursive_file_search is not called on its own
NoSearch ==
    /\ tree = None
    /\ found = None

\* Args::get is not called; the current directory is the project root
NoCli ==
    /\ argv = <<>>
    /\ cwd = Ok(Root)
    /\ cli = None

\* Project::build is not called
NoProject ==
    /\ project_path = <<>>
    /\ disk = {}
    /\ project = None

\* build() is called directly, not from Args::run
NoRun ==
    /\ run_pc = "NotCalled"
    /\ run_result = "None"
    /\ output_path = <<>>
    /\ bin = NoBin

Init ==
    /\ BuildInit
    /\ NoSearch
    /\ NoCli
    /\ NoProject
    /\ NoRun

\* the step succeeded: on to the next stage
Goto(stage) ==
    /\ pc' = stage
    /\ UNCHANGED <<failed_at, result>>

\* return Err(e), also through the ? operator
Fail(e) ==
    /\ pc' = "Failed"
    /\ failed_at' = pc
    /\ result' = e

\* todo!() and a failed expect(): the thread unwinds, build() returns nothing
Panic ==
    /\ pc' = "Panicked"
    /\ failed_at' = pc
    /\ UNCHANGED result

\* Path::exists
Exists(path) == path \in fs.members

\* index of the first required path that does not exist, 0 if all exist
FirstMissing(paths) ==
    IF \A i \in 1..Len(paths) : Exists(paths[i]) THEN 0
    ELSE CHOOSE i \in 1..Len(paths) :
             /\ ~Exists(paths[i])
             /\ \A j \in 1..(i - 1) : Exists(paths[j])

\* a validation that reads the manifest before it looks at the layout
ValidateLayoutAfterRead ==
    /\ pc = "Start"
    /\ UNCHANGED outside_build
    /\ LET m == FirstMissing(RequiredPaths)
           checked == IF m = 0 THEN Len(RequiredPaths) ELSE m
       IN  /\ oplog' = (oplog \o <<Op("read", manifest_path)>>)
                           \o [i \in 1..checked |-> Op("exists", RequiredPaths[i])]
           /\ IF m = 0 THEN Goto("LayoutValidated") ELSE Fail("InvalidDirectory")
    /\ UNCHANGED <<fs, fs0, manifest_str, manifest, src_files, include_files,
                   compiler_args, output_str, program, child>>

\* the loop over the four required paths: the first one missing ends build()
ValidateLayout ==
    /\ pc = "Start"
    /\ UNCHANGED outside_build
    /\ LET m == FirstMissing(RequiredPaths)
           checked == IF m = 0 THEN Len(RequiredPaths) ELSE m
       IN  /\ oplog' = oplog \o [i \in 1..checked |-> Op("exists", RequiredPaths[i])]
           /\ IF m = 0 THEN Goto("LayoutValidated") ELSE Fail("InvalidDirectory")
    /\ UNCHANGED <<fs, fs0, manifest_str, manifest, src_files, include_files,
                   compiler_args, output_str, program, child>>

\* let manifest_str = fs::read_to_string(&manifest_path)?
ReadManifest ==
    /\ pc = "LayoutValidated"
    /\ UNCHANGED outside_build
    /\ oplog' = Append(oplog, Op("read", manifest_path))
    /\ LET r == ReadToString(fs.manifest)
       IN  IF r.ok
           THEN manifest_str' = r.val /\ Goto("ManifestRead")
           ELSE manifest_str' = manifest_str /\ Fail(r.err)
    /\ UNCHANGED <<fs, fs0, manifest, src_files, include_files, compiler_args,
                   output_str, program, child>>

\* a parsing step that also resolves build.compiler
ParseManifestChecksCompiler ==
    /\ pc = "ManifestRead"
    /\ UNCHANGED outside_build
    /\ LET r == ManifestParse(manifest_str)
       IN  IF r.ok /\ ResolveCompiler(r.val.compiler) = "gcc"
           THEN manifest' = r.val /\ Goto("ManifestParsed")
           ELSE manifest' = manifest /\ Fail("ManifestError")
    /\ UNCHANGED <<fs, fs0, manifest_str, src_files, include_files, compiler_args,
                   output_str, program, child, oplog>>

\* let manifest = Manifest::parse(&manifest_str)?
ParseManifest ==
    /\ pc = "ManifestRead"
    /\ UNCHANGED outside_build
    /\ LET r == ManifestParse(manifest_str)
       IN  IF r.ok
           THEN manifest' = r.val /\ Goto("ManifestParsed")
           ELSE manifest' = manifest /\ Fail(r.err)
    /\ UNCHANGED <<fs, fs0, manifest_str, src_files, include_files, compiler_args,
                   output_str, program, child, oplog>>

\* let mut src_files = recursive_file_search(src_path)?
DiscoverSrc ==
    /\ pc = "ManifestParsed"
    /\ UNCHANGED outside_build
    /\ oplog' = Append(oplog, Op("list", src_path))
    /\ LET r == recursive_file_search(src_path, fs.src)
       IN  IF r.ok
           THEN src_files' = r.val /\ Goto("SrcDiscovered")
           ELSE src_files' = src_files /\ Fail(r.err)
    /\ UNCHANGED <<fs, fs0, manifest_str, manifest, include_files, compiler_args,
                   output_str, program, child>>

\* let include_files = recursive_file_search(include_path)?
DiscoverInclude ==
    /\ pc = "SrcDiscovered"
    /\ UNCHANGED outside_build
    /\ oplog' = Append(oplog, Op("list", include_path))
    /\ LET r == recursive_file_search(include_path, fs.include)
       IN  IF r.ok
           THEN include_files' = r.val /\ Goto("SourcesDiscovered")
           ELSE include_files' = include_files /\ Fail(r.err)
    /\ UNCHANGED <<fs, fs0, manifest_str, manifest, src_files, compiler_args,
                   output_str, program, child>>

\* an assembly that puts the flags in front of the files
CompilerArgsFlagsFirst(src, include, cflags) == cflags \o (src \o include)

\* src_files.extend_from_slice(&include_files), each file is pushed, then
\* compiler_args.extend_from_slice(&manifest.build.cflags)
CompilerArgs(src, include, cflags) == (src \o include) \o cflags

\* an output path that forgets the manifest's name
OutputPathFixedName(name) == PathJoin(build_path, <<"a.out">>)

\* build_path.join(manifest.meta.name)
OutputPath(name) == PathJoin(build_path, <<name>>)

\* the error of the match's last arm
RejectedCompilerError == "InvalidDirectory"

\* an assembly step that creates the output file before the match
BuildCommandCreatesOutput ==
    /\ pc = "SourcesDiscovered"
    /\ UNCHANGED outside_build
    /\ compiler_args' = CompilerArgs(src_files, include_files, manifest.cflags)
    /\ output_str' = OutputPath(manifest.name)
    /\ fs' = [fs EXCEPT !.files =
                 {f \in @ : f.path # OutputPath(manifest.name)}
                 \cup {[path |-> OutputPath(manifest.name), tag |-> "partial"]}]
    /\ LET p == ResolveCompiler(manifest.compiler)
       IN  CASE p = "reject" -> program' = program /\ Fail(RejectedCompilerError)
             [] p = "todo" -> program' = program /\ Panic
             [] OTHER -> program' = p /\ Goto("CommandBuilt")
    /\ UNCHANGED <<fs0, manifest_str, manifest, src_files, include_files,
                   child, oplog>>

\* the argument list and the output path are assembled, then the match on
\* manifest.build.compiler picks the program; nothing is read or written
BuildCommand ==
    /\ pc = "SourcesDiscovered"
    /\ UNCHANGED outside_build
    /\ compiler_args' = CompilerArgs(src_files, include_files, manifest.cflags)
    /\ output_str' = OutputPath(manifest.name)
    /\ LET p == ResolveCompiler(manifest.compiler)
       IN  CASE p = "reject" -> program' = program /\ Fail(RejectedCompilerError)
             [] p = "todo" -> program' = program /\ Panic
             [] OTHER -> program' = p /\ Goto("CommandBuilt")
    /\ UNCHANGED <<fs, fs0, manifest_str, manifest, src_files, include_files,
                   child, oplog>>

\* .args(compiler_args).args(["-o", output_str])
SpawnArgs(args, out) == args \o <<(<<"-o">>), out>>

\* .spawn().expect(..): the operating system starts the program or not;
\* when it does not, expect() panics
Spawn ==
    /\ pc = "CommandBuilt"
    /\ UNCHANGED outside_build
    /\ \E started \in BOOLEAN :
          /\ child' = [program |-> program,
                       args |-> SpawnArgs(compiler_args, output_str),
                       status |-> IF started THEN "running" ELSE "not_started"]
          /\ oplog' = Append(oplog, Op(IF started THEN "spawn" ELSE "spawn_failed",
                                       <<program>>))
          /\ IF started THEN Goto("ProcessSpawned") ELSE Panic
    /\ UNCHANGED <<fs, fs0, manifest_str, manifest, src_files, include_files,
                   compiler_args, output_str, program>>

\* the path the compiler was told to write: the argument after -o
OutputOf(args) ==
    LET i == CHOOSE k \in 1..(Len(args) - 1) : args[k] = <<"-o">>
    IN  args[i + 1]

\* the files under build/ once one has been written with the given tag
WriteFile(files, path, tag) ==
    {f \in files : f.path # path} \cup {[path |-> path, tag |-> tag]}

\* how the child can end: it links and exits 0; it fails and leaves no
\* output or a partial one; or wait() itself fails
ChildOutcomes == {"exit0", "exit1", "exit1_partial", "wait_error"}

\* a wait that turns a non-zero exit status into an error
WaitChecksExitStatus ==
    /\ pc = "ProcessSpawned"
    /\ UNCHANGED outside_build
    /\ \E outcome \in ChildOutcomes :
          /\ fs' = [fs EXCEPT !.files =
                       CASE outcome = "exit0" ->
                                WriteFile(@, OutputOf(child.args), "new")
                         [] outcome = "exit1_partial" ->
                                WriteFile(@, OutputOf(child.args), "partial")
                         [] OTHER -> @]
          /\ child' = [child EXCEPT !.status = outcome]
          /\ CASE outcome = "wait_error" -> Fail("IoError")
               [] outcome = "exit0" -> Goto("ProcessCompleted")
               [] OTHER -> Fail("CompilerFailed")
    /\ oplog' = Append(oplog, Op("wait", <<child.program>>))
    /\ UNCHANGED <<fs0, manifest_str, manifest, src_files, include_files,
                   compiler_args, output_str, program>>

\* .wait()?: blocks until the child has exited; the exit status is dropped
Wait ==
    /\ pc = "ProcessSpawned"
    /\ UNCHANGED outside_build
    /\ \E outcome \in ChildOutcomes :
          /\ fs' = [fs EXCEPT !.files =
                       CASE outcome = "exit0" ->
                                WriteFile(@, OutputOf(child.args), "new")
                         [] outcome = "exit1_partial" ->
                                WriteFile(@, OutputOf(child.args), "partial")
                         [] OTHER -> @]
          /\ child' = [child EXCEPT !.status = outcome]
          /\ IF outcome = "wait_error" THEN Fail("IoError")
             ELSE Goto("ProcessCompleted")
    /\ oplog' = Append(oplog, Op("wait", <<child.program>>))
    /\ UNCHANGED <<fs0, manifest_str, manifest, src_files, include_files,
                   compiler_args, output_str, program>>

\* the elapsed time is printed and Ok(()) returned
Finish ==
    /\ pc = "ProcessCompleted"
    /\ UNCHANGED outside_build
    /\ pc' = "Done"
    /\ result' = "Ok"
    /\ UNCHANGED <<fs, fs0, failed_at, manifest_str, manifest, src_files,
                   include_files, compiler_args, output_str, program, child, oplog>>

Next ==
    \/ ValidateLayout
    \/ ReadManifest
    \/ ParseManifest
    \/ DiscoverSrc
    \/ DiscoverInclude
    \/ BuildCommand
    \/ Spawn
    \/ Wait
    \/ Finish

Spec == Init /\ [][Next]_vars

\* -------------------------------------------------------------- Args::get
\* A command line argument is a sequence of pieces: a blank " ", a slash
\* "/", or a word without blanks and slashes.
ArgStrings ==
    {<<"init">>, <<"new">>, <<"build">>, <<"run">>, <<"help">>,
     <<"--git">>, <<"-g">>, <<"x">>, <<" ", "new">>, <<"-g", " ">>, <<"/", "x">>}

\* Option::Some; Option::None is None
Some(v) == [none |-> FALSE, val |-> v]

\* a panic: the thread unwinds and the caller gets no value
Unwound == [ok |-> FALSE, err |-> "<panic>"]

\* a trim that leaves the string as it is
TrimNothing(str) == str

\* str::trim: blanks are dropped at both ends
RECURSIVE Trim(_)
Trim(str) ==
    IF str = <<>> THEN str
    ELSE IF Head(str) = " " THEN Trim(Tail(str))
    ELSE IF str[Len(str)] = " " THEN Trim(SubSeq(str, 1, Len(str) - 1))
    ELSE str

\* str::trim_start_matches("/"): every leading slash is dropped
RECURSIVE TrimStartSlashes(_)
TrimStartSlashes(str) ==
    IF str # <<>> /\ Head(str) = "/" THEN TrimStartSlashes(Tail(str)) ELSE str

\* the argument matched when the name after new is only looked at
AfterNamePeeked(i) == i + 1

\* args.next() takes the name: the loop goes on behind it
AfterName(i) == i + 2

\* Args::get: the while loop over env::args().skip(1).enumerate(), started
\* at the i-th argument with the Args built so far
RECURSIVE ArgsLoop(_, _, _, _)
ArgsLoop(args, dir, i, acc) ==
    IF i > Len(args) THEN Ok(acc)
    ELSE LET arg == Trim(args[i])
         IN  CASE i = 1 /\ arg = <<"init">> ->
                      ArgsLoop(args, dir, i + 1, [acc EXCEPT !.command = "Init"])
               [] i = 1 /\ arg = <<"new">> ->
                      IF i + 1 > Len(args) THEN Err("MissingArgument")
                      ELSE IF ~dir.ok THEN Unwound
                      ELSE ArgsLoop(args, dir, AfterName(i),
                               [acc EXCEPT
                                   !.path = Some(PathJoin(dir.val,
                                                TrimStartSlashes(args[i + 1]))),
                                   !.command = "New"])
               [] i = 1 /\ arg = <<"build">> ->
                      ArgsLoop(args, dir, i + 1, [acc EXCEPT !.command = "Build"])
               [] i = 1 /\ arg = <<"run">> ->
                      ArgsLoop(args, dir, i + 1, [acc EXCEPT !.command = "Run"])
               [] i = 1 /\ arg = <<"help">> ->
                      ArgsLoop(args, dir, i + 1, [acc EXCEPT !.command = "Help"])
               [] i = 1 /\ arg \notin {<<"init">>, <<"new">>, <<"build">>,
                                       <<"run">>, <<"help">>} ->
                      Err("InvalidCommand")
               [] i > 1 /\ arg \in {<<"--git">>, <<"-g">>} ->
                      ArgsLoop(args, dir, i + 1,
                               [acc EXCEPT !.flags = Append(@, "Git")])
               [] OTHER -> ArgsLoop(args, dir, i + 1, acc)

\* Args::get
ArgsGet(args, dir) ==
    ArgsLoop(args, dir, 1, [command |-> "Help", path |-> None, flags |-> <<>>])

InitCli ==
    /\ NoBuild
    /\ NoSearch
    /\ NoProject
    /\ NoRun
    /\ argv \in SeqsUpTo(ArgStrings, MaxArgs)
    /\ cwd \in {Ok(Root), Err("IoError")}
    /\ cli = None

\* one call of Args::get
Get ==
    /\ run_pc = "NotCalled"
    /\ cli = None
    /\ cli' = ArgsGet(argv, cwd)
    /\ UNCHANGED <<build_vars, search_vars, argv, cwd, project_vars, run_vars>>

NextCli == Get

SpecCli == InitCli /\ [][NextCli]_vars

\* ---------------------------------------------------------------- Args::run
InitRun ==
    /\ BuildFresh("NotCalled")
    /\ NoSearch
    /\ argv = <<(<<"run">>)>>
    /\ cwd \in {Ok(Root), Err("IoError")}
    /\ cli = None
    /\ NoProject
    /\ run_pc = "Start"
    /\ run_result = "None"
    /\ output_path = <<>>
    /\ bin = NoBin

\* return Err(e) from Args::run
RunFail(e) ==
    /\ run_pc' = "Failed"
    /\ run_result' = e

\* let path = env::current_dir()?;
\* let manifest_file = fs::read_to_string(manifest_path)?;
\* let manifest = Manifest::parse(&manifest_file)?;
\* let output_path = build_path.join(manifest.meta.name);
\* a file that does not exist cannot be read
RunLoadManifest ==
    /\ run_pc = "Start"
    /\ oplog' = IF cwd.ok THEN Append(oplog, Op("read", manifest_path)) ELSE oplog
    /\ LET r == IF ~cwd.ok THEN cwd
                ELSE IF Exists(manifest_path) THEN ReadToString(fs.manifest)
                ELSE Err("IoError")
           m == IF r.ok THEN ManifestParse(r.val) ELSE r
       IN  IF m.ok
           THEN /\ output_path' = PathJoin(build_path, <<m.val.name>>)
                /\ run_pc' = "ManifestParsed"
                /\ UNCHANGED run_result
           ELSE /\ RunFail(m.err)
                /\ UNCHANGED output_path
    /\ UNCHANGED <<fs, fs0, pc, failed_at, result, manifest_str, manifest,
                   src_files, include_files, compiler_args, output_str, program,
                   child, search_vars, cli_vars, project_vars, bin>>

\* build(&path) is entered
RunCallBuild ==
    /\ run_pc = "ManifestParsed"
    /\ pc = "NotCalled"
    /\ run_pc' = "InBuild"
    /\ pc' = "Start"
    /\ UNCHANGED <<fs, fs0, failed_at, result, manifest_str, manifest, src_files,
                   include_files, compiler_args, output_str, program, child,
                   oplog, search_vars, cli_vars, project_vars, run_result,
                   output_path, bin>>

\* a run that goes on whatever build() returned
RunBuildReturnsIgnored ==
    /\ run_pc = "InBuild"
    /\ pc \in {"Done", "Failed", "Panicked"}
    /\ IF pc = "Panicked"
       THEN run_pc' = "Panicked" /\ UNCHANGED run_result
       ELSE run_pc' = "BuildReturned" /\ UNCHANGED run_result
    /\ UNCHANGED <<build_vars, search_vars, cli_vars, project_vars, output_path,
                   bin>>

\* build(&path)?: an error of build() is returned by run, a panic unwinds
\* through run, and only Ok(()) lets run go on
RunBuildReturns ==
    /\ run_pc = "InBuild"
    /\ pc \in {"Done", "Failed", "Panicked"}
    /\ CASE pc = "Done" -> run_pc' = "BuildReturned" /\ UNCHANGED run_result
         [] pc = "Failed" -> RunFail(result)
         [] OTHER -> run_pc' = "Panicked" /\ UNCHANGED run_result
    /\ UNCHANGED <<build_vars, search_vars, cli_vars, project_vars, output_path,
                   bin>>

\* process::Command::new(output_str).spawn().expect(..): only a file that
\* exists can be started, and expect() panics when it is not
RunSpawnBinary ==
    /\ run_pc = "BuildReturned"
    /\ \E started \in BOOLEAN :
          /\ started => \E f \in fs.files : f.path = output_path
          /\ bin' = [program |-> output_path,
                     status |-> IF started THEN "running" ELSE "not_started"]
          /\ oplog' = Append(oplog, Op(IF started THEN "exec" ELSE "exec_failed",
                                       output_path))
          /\ IF started THEN run_pc' = "BinarySpawned" ELSE run_pc' = "Panicked"
    /\ UNCHANGED <<fs, fs0, pc, failed_at, result, manifest_str, manifest,
                   src_files, include_files, compiler_args, output_str, program,
                   child, search_vars, cli_vars, project_vars, run_result,
                   output_path>>

\* .wait()?; Ok(())
RunWaitBinary ==
    /\ run_pc = "BinarySpawned"
    /\ \E waited \in BOOLEAN :
          IF waited
          THEN /\ bin' = [bin EXCEPT !.status = "exited"]
               /\ run_pc' = "Done"
               /\ run_result' = "Ok"
          ELSE /\ bin' = [bin EXCEPT !.status = "wait_error"]
               /\ RunFail("IoError")
    /\ UNCHANGED <<build_vars, search_vars, cli_vars, project_vars, output_path>>

NextRun ==
    \/ RunLoadManifest
    \/ RunCallBuild
    \/ ValidateLayout
    \/ ReadManifest
    \/ ParseManifest
    \/ DiscoverSrc
    \/ DiscoverInclude
    \/ BuildCommand
    \/ Spawn
    \/ Wait
    \/ Finish
    \/ RunBuildReturns
    \/ RunSpawnBinary
    \/ RunWaitBinary

SpecRun == InitRun /\ [][NextRun]_vars

\* ---------------------------------------------------------- Project::build
\* Path::with_file_name: the last component is replaced; a path without a
\* file name (empty, or ending in ..) gets the name appended
WithFileName(path, name) ==
    IF path = <<>> \/ path[Len(path)] = ".." THEN path \o <<name>>
    ELSE SubSeq(path, 1, Len(path) - 1) \o <<name>>

\* the paths, relative to the current directory, that may exist
DiskPaths ==
    {<<"cedar.toml">>, <<"proj">>, <<"proj", "cedar.toml">>, <<"a">>,
     <<"a", "cedar.toml">>, <<"a", "proj">>, <<"a", "proj", "cedar.toml">>}

\* the disks: what exists lies in a directory that exists
Disks ==
    {d \in SUBSET DiskPaths :
        \A q \in d : Len(q) > 1 => SubSeq(q, 1, Len(q) - 1) \in d}

\* the paths Project::build is called with
ProjectPaths == {<<"proj">>, <<"a">>, <<"a", "proj">>}

\* Project::build: the two existence checks, then todo!()
ProjectBuild(path, d) ==
    IF path \notin d THEN Err("InvalidPath")
    ELSE IF WithFileName(path, "cedar.toml") \notin d THEN Err("InvalidManifest")
    ELSE Unwound

InitProject ==
    /\ NoBuild
    /\ NoSearch
    /\ NoCli
    /\ NoRun
    /\ project_path \in ProjectPaths
    /\ disk \in Disks
    /\ project = None

\* one call of Project::build
CallProjectBuild ==
    /\ project_path # <<>>
    /\ project = None
    /\ project' = ProjectBuild(project_path, disk)
    /\ UNCHANGED <<build_vars, search_vars, cli_vars, project_path, disk, run_vars>>

NextProject == CallProjectBuild

SpecProject == InitProject /\ [][NextProject]_vars

\* ------------------------------------------- recursive_file_search, alone
InitSearch ==
    /\ NoBuild
    /\ NoCli
    /\ NoProject
    /\ NoRun
    /\ tree \in Trees("src", MaxDepth)
    /\ found = None

\* one call of recursive_file_search(src_path)
Search ==
    /\ tree # None
    /\ found = None
    /\ found' = recursive_file_search(src_path, tree)
    /\ UNCHANGED <<build_vars, tree, cli_vars, project_vars, run_vars>>

NextSearch == Search

SpecSearch == InitSearch /\ [][NextSearch]_vars

\* ------------------------------------------------------------------ claims
\* build() is over: it returned, or it panicked
Terminal == pc \in {"Done", "Failed", "Panicked"}

\* a compiler process was started
Spawned == child.status \notin {"none", "not_started"}

\* ASCII lower case of the letters the identifiers use
LowerChar(c) ==
    CASE c = "G" -> "g" [] c = "C" -> "c" [] c = "L" -> "l" [] c = "A" -> "a"
      [] c = "N" -> "n" [] c = "M" -> "m" [] c = "S" -> "s" [] c = "V" -> "v"
      [] OTHER -> c

ToLower(str) == [i \in 1..Len(str) |-> LowerChar(str[i])]

\* the manifest the filesystem held when build() was called is a good one
GoodManifest(f) == f.manifest.readable /\ f.manifest.text.defect = "none"

\* C1: whenever at least one of cedar.toml, src/, include/, build/ did not
\* exist when build() was called, build() has returned InvalidDirectory as
\* soon as it has taken its first step, whatever the manifest holds and
\* whichever of the other members exist.
C1_MissingMemberIsInvalidDirectory ==
    (pc # "Start" /\ Members \ fs0.members # {})
        => (pc = "Failed" /\ result = "InvalidDirectory")

\* build/ alone is missing, the manifest is a good one, and build() failed
C1_Witness ==
    /\ pc = "Failed"
    /\ result = "InvalidDirectory"
    /\ fs0.members = Members \ {build_path}
    /\ GoodManifest(fs0)
    /\ fs0.manifest.text.compiler = gcc

\* C2: in the order of operations, every read of the manifest, every
\* directory listing and every spawn comes after the existence checks of all
\* four members; and when build/ is absent build() returns InvalidDirectory
\* having done nothing but existence checks.
C2_LayoutCheckedBeforeAnyRead ==
    /\ \A i \in 1..Len(oplog) :
          oplog[i].op # "exists" =>
              \A m \in Members : \E j \in 1..(i - 1) : oplog[j] = Op("exists", m)
    /\ (pc # "Start" /\ build_path \notin fs0.members) =>
          /\ pc = "Failed"
          /\ result = "InvalidDirectory"
          /\ \A i \in 1..Len(oplog) : oplog[i].op = "exists"

\* build/ alone is missing: the four checks were made and nothing was read
C2_Witness ==
    /\ pc = "Failed"
    /\ fs0.members = Members \ {build_path}
    /\ Len(oplog) = 4
    /\ oplog[4] = Op("exists", build_path)
    /\ manifest_str = None

\* C3: on a valid layout, when the command builder is reached with a
\* build.compiler that is, in any case, neither gcc nor clang (msvc), build()
\* returns the compiler's own error (BuildError::InvalidCompiler, the spec's
\* UnsupportedCompiler) and no compiler process is spawned.
C3_UnknownCompilerIsUnsupportedCompiler ==
    (/\ Terminal
     /\ manifest # None
     /\ output_str # <<>>
     /\ ToLower(manifest.compiler) \notin {gcc, clang})
        => (pc = "Failed" /\ result = "InvalidCompiler" /\ ~Spawned)

\* C4: every upper/lower-case spelling of gcc resolves to the gcc toolchain:
\* once the command builder has run, such a build is not rejected by it, and
\* a process that is spawned is gcc.
C4_GccSpellingsResolveAlike ==
    (/\ manifest # None
     /\ output_str # <<>>
     /\ ToLower(manifest.compiler) = gcc)
        => (/\ failed_at # "SourcesDiscovered"
            /\ program = "gcc"
            /\ (Spawned => child.program = "gcc"))

\* C5: for clang, CLANG and Clang, build() returns the compiler's own error
\* (BuildError::InvalidCompiler, the spec's UnsupportedCompiler) as a value
\* once the command builder has run; it never panics and spawns no process.
C5_ReservedCompilerIsAnErrorValue ==
    (/\ manifest # None
     /\ output_str # <<>>
     /\ manifest.compiler \in {clang, CLANG, Clang})
        => (pc = "Failed" /\ result = "InvalidCompiler" /\ ~Spawned)

\* C6: the arguments of the compiler's command line are exactly the files
\* found under src/ in discovery order, then those found under include/ in
\* discovery order, then the manifest's cflags as declared, then -o and
\* <root>/build/<meta.name>.
C6_ArgumentOrder ==
    child.status # "none" =>
        child.args =
            recursive_file_search(Root \o <<"src">>, fs0.src).val
            \o recursive_file_search(Root \o <<"include">>, fs0.include).val
            \o fs0.manifest.text.cflags
            \o <<(<<"-o">>), Root \o <<"build", fs0.manifest.text.name>>>>

\* a compiler was spawned with files from both trees, one of them nested,
\* and two different flags
C6_Witness ==
    /\ child.status = "running"
    /\ Len(src_files) >= 2
    /\ \E i \in 1..Len(src_files) : Len(src_files[i]) > 3
    /\ Len(include_files) >= 1
    /\ Len(manifest.cflags) = 2
    /\ manifest.cflags[1] # manifest.cflags[2]
    /\ Len(child.args) = Len(src_files) + Len(include_files) + 4

\* C7: when the compiler executable cannot be started, build() returns a
\* ProcessSpawnFailure error value; it does not panic.
C7_SpawnFailureIsAnErrorValue ==
    child.status = "not_started" =>
        (pc = "Failed" /\ result = "ProcessSpawnFailure")

\* the stages of the spec's state machine, numbered in order; the two steps
\* the code takes inside a stage belong to the stage they start from
StageNo(p) ==
    CASE p = "Start" -> 1
      [] p \in {"LayoutValidated", "ManifestRead"} -> 2
      [] p \in {"ManifestParsed", "SrcDiscovered"} -> 3
      [] p = "SourcesDiscovered" -> 4
      [] p = "CommandBuilt" -> 5
      [] p = "ProcessSpawned" -> 6
      [] p = "ProcessCompleted" -> 7
      [] p = "Done" -> 8
      [] OTHER -> 0

\* the errors that belong to the step leaving each stage
StageErrors(p) ==
    CASE p = "Start" -> {"InvalidDirectory"}
      [] p = "LayoutValidated" -> {"IoError"}
      [] p = "ManifestRead" -> {"ManifestError"}
      [] p \in {"ManifestParsed", "SrcDiscovered"} -> {"IoError"}
      [] p = "SourcesDiscovered" -> {"InvalidCompiler"}
      [] p = "CommandBuilt" -> {"ProcessSpawnFailure"}
      [] p = "ProcessSpawned" -> {"IoError"}
      [] OTHER -> {}

\* C8: build() is a linear state machine: every step stays in its stage,
\* enters the next stage, or moves to Failed with an error of the step that
\* failed; Failed and Done are left by no step, and no stage is re-entered.
C8_LinearStateMachine ==
    [][ \/ /\ StageNo(pc) > 0
           /\ StageNo(pc') \in {StageNo(pc), StageNo(pc) + 1}
           /\ result' = IF pc' = "Done" THEN "Ok" ELSE "None"
        \/ /\ StageNo(pc) \in 1..7
           /\ pc' = "Failed"
           /\ result' \in StageErrors(pc) ]_vars

\* C9: when build() has failed and no compiler process was started, the
\* filesystem under the project root is what it was when build() was called.
C9_FailureBeforeSpawnLeavesFilesystem ==
    (pc \in {"Failed", "Panicked"} /\ ~Spawned) => fs = fs0

\* the command builder rejected the compiler of a project that has an old
\* binary under build/
C9_Witness ==
    /\ pc = "Failed"
    /\ failed_at = "SourcesDiscovered"
    /\ ~Spawned
    /\ fs0.files # {}
    /\ fs = fs0

\* a new executable is at <root>/build/<meta.name>
NewExecutable ==
    [path |-> Root \o <<"build", fs0.manifest.text.name>>, tag |-> "new"] \in fs.files

\* nothing but <root>/build/<meta.name> differs from the filesystem build()
\* was called on
NothingElseWritten ==
    LET out == Root \o <<"build", fs0.manifest.text.name>>
    IN  /\ [fs EXCEPT !.files = {}] = [fs0 EXCEPT !.files = {}]
        /\ {f \in fs.files : f.path # out} = {f \in fs0.files : f.path # out}

\* C10 as stated: whenever build() returned success, a new executable is at
\* <root>/build/<meta.name> and nothing else was written.
C10_SuccessMeansExecutable ==
    result = "Ok" => (NewExecutable /\ NothingElseWritten)

\* C10 amended: whenever build() returned success nothing but
\* <root>/build/<meta.name> was written, and when the compiler exited with
\* status 0 a new executable is at <root>/build/<meta.name>.
C10_SuccessWithExitZeroMeansExecutable ==
    result = "Ok" =>
        /\ NothingElseWritten
        /\ child.status = "exit0" => NewExecutable

\* build() succeeded after the compiler exited 0, in a project that already
\* had binaries under build/
C10_Witness ==
    /\ result = "Ok"
    /\ child.status = "exit0"
    /\ Cardinality(fs0.files) = 2
    /\ NewExecutable

\* both trees of the filesystem build() was called on can be searched
ReadableTrees(f) ==
    /\ recursive_file_search(src_path, f.src).ok
    /\ recursive_file_search(include_path, f.include).ok

\* a directory was listed
SomeDirectoryListed == \E i \in 1..Len(oplog) : oplog[i].op = "list"

C16_ExitStatusDoesNotDecide ==
    child.status \in {"exit0", "exit1", "exit1_partial"} =>
        (/\ pc \in {"ProcessCompleted", "Done"}
         /\ failed_at = "None"
         /\ (pc = "Done" => result = "Ok"))

\* build() returned Ok after a compiler that exited non-zero
C16_Witness ==
    /\ pc = "Done"
    /\ result = "Ok"
    /\ child.status = "exit1"

\* the paths of the files below a directory, at every depth
RECURSIVE LeafFiles(_, _)
LeafFiles(path, dir) ==
    UNION {IF e.kind = "file" THEN {path \o <<e.name>>}
           ELSE LeafFiles(path \o <<e.name>>, e) : e \in Range(dir.entries)}

\* the paths of the directories below a directory, at every depth
RECURSIVE SubdirPaths(_, _)
SubdirPaths(path, dir) ==
    UNION {IF e.kind = "file" THEN {}
           ELSE {path \o <<e.name>>} \cup SubdirPaths(path \o <<e.name>>, e) :
           e \in Range(dir.entries)}

\* the directory and every directory below it can be listed
RECURSIVE AllReadable(_)
AllReadable(dir) ==
    /\ dir.readable
    /\ \A e \in Range(dir.entries) : e.kind = "dir" => AllReadable(e)

\* C12: for a tree all of whose directories can be listed,
\* recursive_file_search returns Ok with a sequence whose elements are
\* exactly the files under the directory at every depth, each once, and no
\* directory.
C12_SearchFindsExactlyTheLeafFiles ==
    (found # None /\ AllReadable(tree)) =>
        /\ found.ok
        /\ Range(found.val) = LeafFiles(src_path, tree)
        /\ Len(found.val) = Cardinality(LeafFiles(src_path, tree))
        /\ Range(found.val) \cap SubdirPaths(src_path, tree) = {}

\* a search that found files at depths 0, 1 and 2
C12_Witness ==
    /\ found # None
    /\ found.ok
    /\ \A n \in 3..5 : \E i \in 1..Len(found.val) : Len(found.val[i]) = n
    /\ Len(found.val) >= 4

\* the command words
CommandWords == {<<"init">>, <<"new">>, <<"build">>, <<"run">>, <<"help">>}

\* C13 as stated: Args::get returns InvalidCommand exactly when there is a
\* first argument that is not one of init, new, build, run, help, returns
\* MissingArgument exactly when the first argument is new and nothing
\* follows, and returns Ok in every other case.
C13_CliErrorsExactly ==
    cli # None =>
        LET invalid == Len(argv) >= 1 /\ argv[1] \notin CommandWords
            missing == Len(argv) = 1 /\ argv[1] = <<"new">>
        IN  /\ (cli = Err("InvalidCommand")) <=> invalid
            /\ (cli = Err("MissingArgument")) <=> missing
            /\ (~invalid /\ ~missing) => cli.ok

\* str is word with blanks, and nothing else, around it
Padded(word, str) ==
    \E a, b \in 0..Len(str) :
        /\ a + Len(word) + b = Len(str)
        /\ \A k \in 1..Len(str) :
              IF k > a /\ k <= a + Len(word) THEN str[k] = word[k - a]
              ELSE str[k] = " "

\* C13 amended: the first argument is compared after its surrounding
\* whitespace is trimmed: InvalidCommand exactly when the trimmed first
\* argument is not a command word, MissingArgument exactly when it is new
\* and nothing follows; when it is new, a name follows and the current
\* directory cannot be determined, Args::get panics; in every other case,
\* the empty argument list included, it returns Ok.
C13_CliErrorsExactlyAfterTrim ==
    cli # None =>
        LET invalid == /\ Len(argv) >= 1
                       /\ \A w \in CommandWords : ~Padded(w, argv[1])
            missing == Len(argv) = 1 /\ Padded(<<"new">>, argv[1])
            nocwd == Len(argv) >= 2 /\ Padded(<<"new">>, argv[1]) /\ ~cwd.ok
        IN  /\ (cli = Err("InvalidCommand")) <=> invalid
            /\ (cli = Err("MissingArgument")) <=> missing
            /\ (cli = Unwound) <=> nocwd
            /\ (~invalid /\ ~missing /\ ~nocwd) => cli.ok

\* a flag in first position was refused although more arguments follow
C13_Witness ==
    /\ cli = Err("InvalidCommand")
    /\ Len(argv) = 3
    /\ argv[1] = <<"--git">>
    /\ argv[2] = <<"new">>

\* how many of the arguments from the i-th on are the git flag
RECURSIVE GitFlagsFrom(_, _)
GitFlagsFrom(args, i) ==
    IF i > Len(args) THEN 0
    ELSE (IF Trim(args[i]) \in {<<"--git">>, <<"-g">>} THEN 1 ELSE 0)
         + GitFlagsFrom(args, i + 1)

\* C14: in every Args that Args::get returns, path is set if and only if
\* command is New; for New the path is the current directory joined with
\* the argument after new, which is not counted as a flag even when it is
\* --git or -g: the flags are the git flags among the arguments behind it.
C14_PathIffNew ==
    (cli # None /\ cli.ok) =>
        /\ (cli.val.path # None) <=> (cli.val.command = "New")
        /\ cli.val.command = "New" =>
              /\ cli.val.path = Some(Root \o TrimStartSlashes(argv[2]))
              /\ Len(cli.val.flags) = GitFlagsFrom(argv, 3)
        /\ cli.val.command # "New" =>
              Len(cli.val.flags) = GitFlagsFrom(argv, 2)

\* new --git --git: the first --git is the name, the second a flag
C14_Witness ==
    /\ cli # None
    /\ cli.ok
    /\ argv = <<(<<"new">>), <<"--git">>, <<"--git">>>>
    /\ cli.val.path = Some(Root \o <<"--git">>)
    /\ cli.val.flags = <<"Git">>

\* C15: Project::build returns InvalidPath when the given path does not
\* exist, and returns InvalidManifest exactly when the path exists and no
\* cedar.toml exists inside the given directory.
C15_ManifestLookedUpInsideTheDirectory ==
    project # None =>
        /\ project_path \notin disk => project = Err("InvalidPath")
        /\ (project = Err("InvalidManifest")) <=>
              (/\ project_path \in disk
               /\ project_path \o <<"cedar.toml">> \notin disk)

\* the positions in the log at which a compiler was started
CompilerStarts == {i \in 1..Len(oplog) : oplog[i].op = "spawn"}

\* the positions in the log at which the binary was started, or tried
BinaryStarts == {i \in 1..Len(oplog) : oplog[i].op \in {"exec", "exec_failed"}}

\* C17: in the run command the binary <cwd>/build/<meta.name> is started
\* only after build() has returned Ok in this invocation: while run's own
\* manifest read and parse have not succeeded, or build() has not returned,
\* or has returned an error or panicked, no binary is started; and at most
\* one compiler and at most one binary are started, the compiler first.
C17_BinaryOnlyAfterSuccessfulBuild ==
    /\ BinaryStarts # {} =>
          /\ pc = "Done"
          /\ result = "Ok"
          /\ run_pc \notin {"Start", "ManifestParsed", "InBuild"}
          /\ oplog[CHOOSE i \in BinaryStarts : TRUE].path
                 = Root \o <<"build", fs0.manifest.text.name>>
    /\ (bin.status # "none") <=> (BinaryStarts # {})
    /\ Cardinality(CompilerStarts) <= 1
    /\ Cardinality(BinaryStarts) <= 1
    /\ \A j \in BinaryStarts : \E i \in CompilerStarts : i < j

\* run returned Ok: the compiler exited 0 and the new binary ran
C17_Witness ==
    /\ run_pc = "Done"
    /\ run_result = "Ok"
    /\ bin.status = "exited"
    /\ child.status = "exit0"
    /\ Cardinality(CompilerStarts) = 1
    /\ Cardinality(BinaryStarts) = 1

====
